---- MODULE Spec2Model ----
(***************************************************************************)
(* PriceTrak: the product-data extraction pipeline (scraper.py) and the    *)
(* periodic refresh engine (app.py), over the tables of models.py.         *)
(*                                                                         *)
(* Python values are tagged records; a call's outcome is a record          *)
(* [raised, v]: raised = "" when the call returned v, and the exception's  *)
(* class name otherwise.                                                   *)
(***************************************************************************)
EXTENDS Integers, Sequences, FiniteSets, TLC

VARIABLES
    pc,       \* position of the call under study ("idle" when none)
    inp,      \* the call's input
    out,      \* the call's outcome
    frame,    \* the call's local variables
    calls,    \* the functions the call has called so far, in order
    products,       \* table products: row i has id i
    price_history,  \* table price_history, in insertion order
    watchlist,      \* table watchlist: a set of rows
    env,            \* os.environ: the SMTP options
    web,            \* the request each web thread is handling
    job,            \* the refresh job: its position, its locals, its cycle
    dispatched,     \* the send_email calls that returned, in order
    budget          \* how many more requests and cycles may begin

callvars == <<pc, inp, out, frame, calls>>
dbvars == <<products, price_history, watchlist, env, web, job, dispatched, budget>>
vars == <<callvars, dbvars>>

\* the application at rest with empty tables
NoApp ==
    /\ products = <<>> /\ price_history = <<>> /\ watchlist = {}
    /\ env = <<>> /\ web = <<>> /\ job = <<>> /\ dispatched = <<>>
    /\ budget = <<>>

\* a call that keeps no locals and no call log
NoFrame == frame = <<>> /\ calls = <<>> /\ NoApp

(***************************************************************************)
(* Bounds                                                                  *)
(***************************************************************************)
MaxTextLen == 4
MaxUrlLen == 3
MaxScripts == 2
MaxPrice == 2
MaxTracks == 2
MaxWatches == 2
MaxCycles == 1

(***************************************************************************)
(* Python values                                                           *)
(***************************************************************************)
PyNone == [t |-> "none"]
PyStr(s) == [t |-> "str", s |-> s]
PyNum(n) == [t |-> "num", n |-> n]
PyList(n) == [t |-> "list", n |-> n]

Returned(v) == [raised |-> "", v |-> v]
Raised(e) == [raised |-> e, v |-> PyNone]

\* Python truth value of a value
Truthy(x) ==
    CASE x.t = "none" -> FALSE
      [] x.t = "str" -> x.s # <<>>
      [] x.t = "num" -> x.n # 0
      [] x.t = "list" -> x.n # 0
      [] x.t = "dict" -> TRUE
      [] OTHER -> TRUE

\* x or y
PyOr(x, y) == IF Truthy(x) THEN x ELSE y

(***************************************************************************)
(* Text: a string is a sequence of one-character strings                   *)
(***************************************************************************)
Digits == {"0", "1", "2", "3", "4", "5", "6", "7", "8", "9"}

DigitVal(c) ==
    CASE c = "0" -> 0 [] c = "1" -> 1 [] c = "2" -> 2 [] c = "3" -> 3
      [] c = "4" -> 4 [] c = "5" -> 5 [] c = "6" -> 6 [] c = "7" -> 7
      [] c = "8" -> 8 [] c = "9" -> 9

RECURSIVE Keep(_, _)
\* the characters of s that are in set K, in order
Keep(s, K) ==
    IF s = <<>> THEN <<>>
    ELSE IF Head(s) \in K THEN <<Head(s)>> \o Keep(Tail(s), K)
    ELSE Keep(Tail(s), K)

RECURSIVE Count(_, _)
\* str.count(c)
Count(s, c) ==
    IF s = <<>> THEN 0
    ELSE (IF Head(s) = c THEN 1 ELSE 0) + Count(Tail(s), c)

\* str.replace(a, b) for one-character a; b is a string
RECURSIVE Replace(_, _, _)
Replace(s, a, b) ==
    IF s = <<>> THEN <<>>
    ELSE (IF Head(s) = a THEN b ELSE <<Head(s)>>) \o Replace(Tail(s), a, b)

\* the longest prefix of s made of digits
RECURSIVE DigitRun(_)
DigitRun(s) ==
    IF s = <<>> \/ Head(s) \notin Digits THEN <<>>
    ELSE <<Head(s)>> \o DigitRun(Tail(s))

\* the suffix of s from position i on (1-based)
DropTo(s, i) == IF i > Len(s) THEN <<>> ELSE SubSeq(s, i, Len(s))

RECURSIVE Pow10(_)
Pow10(n) == IF n = 0 THEN 1 ELSE 10 * Pow10(n - 1)

RECURSIVE DigitsVal(_)
\* the number a digit string denotes (0 for the empty string)
DigitsVal(s) ==
    IF s = <<>> THEN 0
    ELSE DigitsVal(SubSeq(s, 1, Len(s) - 1)) * 10 + DigitVal(s[Len(s)])

(***************************************************************************)
(* Floats: the decimal m / 10^e, m and e naturals                          *)
(***************************************************************************)
Dec(m, e) == [t |-> "float", m |-> m, e |-> e]
Zero == Dec(0, 0)
IsZero(x) == x.m = 0
\* x == y for two floats
FloatEq(x, y) == x.m * Pow10(y.e) = y.m * Pow10(x.e)
\* x < y for two floats
FloatLt(x, y) == x.m * Pow10(y.e) < y.m * Pow10(x.e)

\* the decimal that "<int>.<frac>" denotes
DecOf(int, frac) == Dec(DigitsVal(int \o frac), Len(frac))

\* float(s) for s of digits, dots and "-": ValueError unless s is an optional
\* sign, then digits with at most one dot and at least one digit ("1.", ".5",
\* "1.5" and "-1" parse; "", ".", "-" and "1.2.3" do not)
PyFloat(s) ==
    LET neg == s # <<>> /\ Head(s) = "-"
        body == IF neg THEN Tail(s) ELSE s
        int == DigitRun(body)
        rest == DropTo(body, Len(int) + 1)
        frac == IF rest = <<>> THEN <<>> ELSE DigitRun(Tail(rest))
        tail == IF rest = <<>> THEN <<>> ELSE DropTo(rest, Len(frac) + 2)
        d == DecOf(int, frac)
    IN  IF /\ rest # <<>> => Head(rest) = "."
           /\ tail = <<>>
           /\ Len(int) + Len(frac) > 0
        THEN Returned(IF neg THEN Dec(0 - d.m, d.e) ELSE d)
        ELSE Raised("ValueError")

RECURSIVE FirstNumber(_)
\* re.search(r"(\d+(?:\.\d+)?)", s): the leftmost match, or PyNone
FirstNumber(s) ==
    IF s = <<>> THEN PyNone
    ELSE IF Head(s) \notin Digits THEN FirstNumber(Tail(s))
    ELSE LET int == DigitRun(s)
             rest == DropTo(s, Len(int) + 1)
             frac == IF rest # <<>> /\ Head(rest) = "."
                     THEN DigitRun(Tail(rest)) ELSE <<>>
         IN  DecOf(int, frac)

ExtractPriceFallback(cleaned) ==
    LET m == FirstNumber(cleaned)
    IN  IF m.t = "none" THEN Zero ELSE m

\* the characters re.sub(r"[^\d.,]", "", text) keeps
PriceChars == Digits \cup {".", ","}

\* _extract_price without the except ValueError branch
extract_price_noexcept(text) ==
    IF ~Truthy(text) THEN Returned(Zero)
    ELSE IF text.t # "str" THEN Raised("TypeError")
    ELSE
    LET cleaned == Keep(text.s, PriceChars)
        sep == IF Count(cleaned, ".") = 1 THEN Replace(cleaned, ",", <<>>)
               ELSE IF Count(cleaned, ".") = 0 /\ Count(cleaned, ",") = 1
                    THEN Replace(cleaned, ",", <<".">>)
               ELSE Replace(cleaned, ",", <<>>)
    IN  IF cleaned = <<>> THEN Returned(Zero) ELSE PyFloat(sep)

\* _extract_price without the branch that reads a lone comma as the decimal
\* separator
extract_price_dot_only(text) ==
    IF ~Truthy(text) THEN Returned(Zero)
    ELSE IF text.t # "str" THEN Raised("TypeError")
    ELSE
    LET cleaned == Keep(text.s, PriceChars)
        sep == Replace(cleaned, ",", <<>>)
        f == PyFloat(sep)
    IN  IF cleaned = <<>> THEN Returned(Zero)
        ELSE IF f.raised = "" THEN f
        ELSE Returned(ExtractPriceFallback(sep))

\* scraper._extract_price on a Python value
extract_price(text) ==
    IF ~Truthy(text) THEN Returned(Zero)
    ELSE IF text.t # "str" THEN Raised("TypeError")   \* re.sub on a non-string
    ELSE
    LET cleaned == Keep(text.s, PriceChars)
        sep == IF Count(cleaned, ".") = 1 THEN Replace(cleaned, ",", <<>>)
               ELSE IF Count(cleaned, ".") = 0 /\ Count(cleaned, ",") = 1
                    THEN Replace(cleaned, ",", <<".">>)
               ELSE Replace(cleaned, ",", <<>>)
        f == PyFloat(sep)
    IN  IF cleaned = <<>> THEN Returned(Zero)
        ELSE IF f.raised = "" THEN f
        ELSE Returned(ExtractPriceFallback(sep))

(***************************************************************************)
(* Price parser on its own: every text up to MaxTextLen over TextChars     *)
(***************************************************************************)
TextChars == {"0", "1", "5", ".", ",", "x", "-"}

RECURSIVE SeqsUpTo(_, _)
SeqsUpTo(S, n) ==
    IF n = 0 THEN {<<>>}
    ELSE LET shorter == SeqsUpTo(S, n - 1)
         IN  shorter \cup {Append(s, c) : s \in {x \in shorter : Len(x) = n - 1}, c \in S}

Texts == SeqsUpTo(TextChars, MaxTextLen)

\* prices as pages print them ("P" stands for a currency sign)
PriceExamples ==
    { <<"1", ",", "2", "3", "4", ".", "5", "6">>,
      <<"1", "2", "3", "4", ",", "5", "6">>,
      <<"P", "1", ",", "2", "3", "4", ".", "0", "0">>,
      <<"1", "2", "3", "4">>,
      <<"a", "b", "c">> }

InitPrice ==
    /\ pc = "price_call"
    /\ inp \in {PyStr(s) : s \in Texts \cup PriceExamples}
    /\ out = Returned(PyNone)
    /\ NoFrame

ParsePrice ==
    /\ pc = "price_call"
    /\ out' = extract_price(inp)
    /\ pc' = "price_done"
    /\ UNCHANGED <<inp, frame, calls, dbvars>>

NextPrice == ParsePrice

SpecPrice == InitPrice /\ [][NextPrice]_vars

\* C9: ParsePrice is total: on every string it returns (never raises) a float
\* that is not negative, and the float is 0 when the string holds no digit
PriceParserTotal ==
    pc = "price_done" =>
        /\ out.raised = ""
        /\ out.v.t = "float"
        /\ out.v.m >= 0
        /\ Keep(inp.s, Digits) = <<>> => IsZero(out.v)

\* C9 witness: a text float() rejects ("1.5." style, or dots only) was parsed
\* by the pattern-match fallback
PriceParserFallbackReached ==
    /\ pc = "price_done"
    /\ inp.s = <<"-", "1", ".", ".">>
    /\ FloatEq(out.v, Dec(1, 0))

IsPriceChar(c) == c \in Digits \/ c = "." \/ c = ","
IsDigit(c) == c \in Digits

\* the number whose digits are those of c before position i, and whose
\* decimals are those after it
SplitAt(c, i) ==
    DecOf(SelectSeq(SubSeq(c, 1, i - 1), IsDigit),
          SelectSeq(SubSeq(c, i + 1, Len(c)), IsDigit))

\* C14: with every character but digits, dots and commas stripped, a text
\* with exactly one dot is read with the dot as the decimal separator and
\* the commas dropped, a text with no dot and exactly one comma with that
\* comma as the decimal separator, and a text with no dot otherwise with its
\* commas dropped; so "1,234.56" and "1234,56" are 1234.56, "P1,234.00" and
\* "1234" are 1234, and "" and "abc" are 0.
SeparatorHeuristic ==
    pc = "price_done" =>
        LET c == SelectSeq(inp.s, IsPriceChar)
            dots == {i \in DOMAIN c : c[i] = "."}
            commas == {i \in DOMAIN c : c[i] = ","}
        IN  /\ out.raised = ""
            /\ Cardinality(dots) = 1 =>
                  FloatEq(out.v, SplitAt(c, CHOOSE i \in dots : TRUE))
            /\ (dots = {} /\ Cardinality(commas) = 1) =>
                  FloatEq(out.v, SplitAt(c, CHOOSE i \in commas : TRUE))
            /\ (dots = {} /\ Cardinality(commas) # 1) =>
                  FloatEq(out.v, SplitAt(c, Len(c) + 1))
            /\ inp.s = <<"1", ",", "2", "3", "4", ".", "5", "6">> =>
                  FloatEq(out.v, Dec(123456, 2))
            /\ inp.s = <<"1", "2", "3", "4", ",", "5", "6">> =>
                  FloatEq(out.v, Dec(123456, 2))
            /\ inp.s = <<"P", "1", ",", "2", "3", "4", ".", "0", "0">> =>
                  FloatEq(out.v, Dec(1234, 0))
            /\ inp.s = <<"1", "2", "3", "4">> => FloatEq(out.v, Dec(1234, 0))
            /\ inp.s \in {<<>>, <<"a", "b", "c">>} => IsZero(out.v)

\* C14 happens: a lone comma was read as the decimal separator
SeparatorHeuristicComma ==
    /\ pc = "price_done"
    /\ inp.s = <<"1", "2", "3", "4", ",", "5", "6">>
    /\ out = Returned(Dec(123456, 2))

(***************************************************************************)
(* URLs: a URL is a sequence of tokens, each a piece of text no pattern    *)
(* the code searches for straddles. str.lower() acts token by token.       *)
(***************************************************************************)
Lower(tok) ==
    CASE tok = "HTTPS://" -> "https://"
      [] tok = "Amazon.COM" -> "amazon.com"
      [] tok = "LAZADA" -> "lazada"
      [] OTHER -> tok

\* url.lower()
LowerUrl(url) == [i \in DOMAIN url |-> Lower(url[i])]

\* "lazada" in u
ContainsLazada(u) == \E i \in DOMAIN u : u[i] = "lazada"

\* re.search(r"https?://(www\.)?(smile\.)?amazon\.com", u)
AmazonHostAt(u, i) ==
    /\ u[i] \in {"http://", "https://"}
    /\ LET j == IF i + 1 <= Len(u) /\ u[i + 1] = "www." THEN i + 2 ELSE i + 1
           k == IF j <= Len(u) /\ u[j] = "smile." THEN j + 1 ELSE j
       IN  k <= Len(u) /\ u[k] = "amazon.com"

SearchAmazonHost(u) == \E i \in DOMAIN u : AmazonHostAt(u, i)

\* scraper.identify_platform: "lazada", "amazon" or "" (None)
identify_platform(url) ==
    LET u == LowerUrl(url)
    IN  IF ContainsLazada(u) THEN "lazada"
        ELSE IF SearchAmazonHost(u) THEN "amazon"
        ELSE ""

\* scraper.is_amazon_url
is_amazon_url(url) == SearchAmazonHost(LowerUrl(url))

\* the platform scraper.scrape_from_url routes the URL to ("": ValueError)
route_platform(url) ==
    IF is_amazon_url(url) THEN "amazon"
    ELSE IF ContainsLazada(LowerUrl(url)) THEN "lazada"
    ELSE ""

(***************************************************************************)
(* Platform identification on its own: every URL up to MaxUrlLen tokens    *)
(***************************************************************************)
UrlTokens == {"http://", "HTTPS://", "www.", "smile.", "amazon.com",
              "Amazon.COM", "lazada", "LAZADA", "shop.", "/item"}

Urls == SeqsUpTo(UrlTokens, MaxUrlLen)

InitIdentify ==
    /\ pc = "identify_call"
    /\ inp \in Urls
    /\ out = [identify |-> "", router |-> ""]
    /\ NoFrame

Identify ==
    /\ pc = "identify_call"
    /\ out' = [identify |-> identify_platform(inp), router |-> route_platform(inp)]
    /\ pc' = "identify_done"
    /\ UNCHANGED <<inp, frame, calls, dbvars>>

NextIdentify == Identify

SpecIdentify == InitIdentify /\ [][NextIdentify]_vars

\* C6: every URL with the Amazon host pattern is classified "amazon", every
\* URL with the Lazada host is classified "lazada", every other URL gets
\* None, and identify_platform and scrape_from_url's routing agree on every URL
PlatformIdentification ==
    pc = "identify_done" =>
        /\ SearchAmazonHost(LowerUrl(inp)) => out.identify = "amazon"
        /\ ContainsLazada(LowerUrl(inp)) => out.identify = "lazada"
        /\ (~SearchAmazonHost(LowerUrl(inp)) /\ ~ContainsLazada(LowerUrl(inp)))
               => out.identify = ""
        /\ out.identify = out.router

(***************************************************************************)
(* Product identifiers parsed from the URL                                 *)
(***************************************************************************)
\* the digits of a token of the form "-i<digits>.html", or "" when the token
\* has no such part
LazadaItemDigits(tok) ==
    CASE tok = "-i101.html" -> <<"1", "0", "1">>
      [] tok = "-i202.html" -> <<"2", "0", "2">>
      [] OTHER -> <<>>

\* scraper._parse_lazada_product_id: group 1 of the leftmost match of
\* -i(\d+)\.html, else the URL itself
parse_lazada_product_id(url) ==
    LET hits == {i \in DOMAIN url : LazadaItemDigits(url[i]) # <<>>}
    IN  IF hits = {} THEN PyStr(url)
        ELSE PyStr(LazadaItemDigits(url[CHOOSE i \in hits : \A j \in hits : i <= j]))

\* which of the four ASIN patterns a token matches (0: none), and the ASIN
AsinPattern(tok) ==
    CASE tok = "/dp/B000000001" -> 1
      [] tok = "/product/B000000002" -> 3
      [] tok = "ASIN=B000000003" -> 4
      [] tok = "/B000000004/" -> 5
      [] OTHER -> 0

Asin(last) == <<"B", "0", "0", "0", "0", "0", "0", "0", "0", last>>

AsinOf(tok) ==
    CASE tok = "/dp/B000000001" -> Asin("1")
      [] tok = "/product/B000000002" -> Asin("2")
      [] tok = "ASIN=B000000003" -> Asin("3")
      [] tok = "/B000000004/" -> Asin("4")
      [] OTHER -> <<>>

\* scraper._parse_amazon_asin: the patterns are tried in order, each over the
\* whole URL; None when the URL is empty or none matches
parse_amazon_asin(url) ==
    LET hits == {i \in DOMAIN url : AsinPattern(url[i]) # 0}
        best == CHOOSE i \in hits : \A j \in hits :
                    \/ AsinPattern(url[i]) < AsinPattern(url[j])
                    \/ AsinPattern(url[i]) = AsinPattern(url[j]) /\ i <= j
    IN  IF hits = {} THEN PyNone ELSE PyStr(AsinOf(url[best]))

(***************************************************************************)
(* Decoded JSON: a dict is a record with t = "dict" and its keys as        *)
(* fields; Bad stands for text json.loads rejects.                         *)
(***************************************************************************)
Bad == [t |-> "bad"]
IsDict(x) == x.t = "dict"

\* dict.get(k, default)
GetOr(d, k, default) == IF k \in DOMAIN d THEN d[k] ELSE default
\* dict.get(k)
Get(d, k) == GetOr(d, k, PyNone)

DigitChars == <<"0", "1", "2", "3", "4", "5", "6", "7", "8", "9">>

RECURSIVE NatStr(_)
\* str(n) for a natural n
NatStr(n) ==
    IF n < 10 THEN <<DigitChars[n + 1]>>
    ELSE NatStr(n \div 10) \o <<DigitChars[(n % 10) + 1]>>

\* str(x)
StrOf(x) ==
    CASE x.t = "str" -> x
      [] x.t = "num" -> PyStr(NatStr(x.n))
      [] x.t = "none" -> PyStr(<<"N", "o", "n", "e">>)
      [] x.t = "list" -> PyStr(<<"[", "]">>)
      [] OTHER -> PyStr(<<"{", "}">>)

(***************************************************************************)
(* scraper.Product and the platform extractors                             *)
(***************************************************************************)
NewProduct(platform, product_id, url) ==
    [platform |-> platform, platform_product_id |-> product_id,
     name |-> PyStr(<<>>), price |-> Zero, url |-> url]

\* Product.set_price with the guard on self.price dropped
set_price_unguarded(product, price) ==
    IF price.t # "none" /\ ~IsZero(price)
    THEN [product EXCEPT !.price = price]
    ELSE product

\* Product.set_price: price is None or a float
set_price(product, price) ==
    IF price.t # "none" /\ ~IsZero(price) /\ IsZero(product.price)
    THEN [product EXCEPT !.price = price]
    ELSE product

\* the first selector of sels (from index i) that selects an element of the
\* page, 0 when none does
RECURSIVE FirstSelected(_, _, _)
FirstSelected(dom, sels, i) ==
    IF i > Len(sels) THEN 0
    ELSE IF dom[sels[i]].t # "none" THEN i
    ELSE FirstSelected(dom, sels, i + 1)

\* for selector in sels: el = soup.select_one(selector); if el:
\*     product.set_price(_extract_price("".join(el.stripped_strings))); break
DomPrice(product, dom, sels) ==
    LET i == FirstSelected(dom, sels, 1)
    IN  IF i = 0 THEN product
        ELSE set_price(product, extract_price(dom[sels[i]]).v)

\* one JSON-LD script block of either extractor
JsonLdBlock(product, data) ==
    IF data = Bad \/ ~IsDict(data) THEN product
    ELSE LET named == [product EXCEPT
                          !.name = PyOr(product.name, GetOr(data, "name", PyStr(<<>>)))]
             offers == Get(data, "offers")
         IN  IF IsZero(named.price) /\ IsDict(offers)
             THEN set_price(named, extract_price(StrOf(Get(offers, "price"))).v)
             ELSE named

RECURSIVE JsonLd(_, _)
\* for sc in soup.find_all("script", type=...): the blocks in document order
JsonLd(product, blocks) ==
    IF blocks = <<>> THEN product
    ELSE JsonLd(JsonLdBlock(product, Head(blocks)), Tail(blocks))

LazadaPriceSelectors ==
    <<"span.pdp-v2-product-price-content-salePrice-amount",
      "span.pdp-v2-product-price-content-originalPrice-amount">>

RECURSIVE PdpTrackingData(_, _)
\* the pdpTrackingData loop of _scrape_lazada; ends at the first script
\* whose assignment decodes, or with the exception that script raises
PdpTrackingData(product, scripts) ==
    IF scripts = <<>> THEN Returned(product)
    ELSE LET sc == Head(scripts)
         IN  IF sc.kind \in {"other", "nomatch"} \/ sc.json = Bad
             THEN PdpTrackingData(product, Tail(scripts))
             ELSE IF ~IsDict(sc.json) THEN Raised("AttributeError")
             ELSE LET arg == PyOr(PyOr(Get(sc.json, "pdt_price"), Get(sc.json, "price")),
                                  Get(sc.json, "product_price"))
                      price == extract_price(arg)
                  IN  IF price.raised # "" THEN price
                      ELSE Returned(set_price(product, price.v))

\* scraper._scrape_lazada; ui is what _scrape_lazada_ui_price(url) returns
scrape_lazada(url, ui, soup) ==
    LET p0 == NewProduct("lazada", parse_lazada_product_id(url), url)
        p1 == set_price(p0, ui)
        p2 == IF IsZero(p1.price) THEN DomPrice(p1, soup.dom, LazadaPriceSelectors) ELSE p1
        p3 == JsonLd(p2, soup.ld)
    IN  PdpTrackingData(p3, soup.scripts)

AmazonPriceSelectors ==
    <<"#priceblock_ourprice", "#priceblock_dealprice", "#priceblock_saleprice",
      "#tp_price_block_total_price_ww > span", "span.a-price span.a-offscreen">>

AmazonFallbackSelector == <<"span.a-offscreen">>

\* scraper._scrape_amazon
scrape_amazon(url, soup) ==
    LET p0 == NewProduct("amazon", PyOr(parse_amazon_asin(url), PyStr(<<>>)), url)
        p1 == IF soup.title.t # "none" THEN [p0 EXCEPT !.name = soup.title] ELSE p0
        p2 == JsonLd(p1, soup.ld)
        p3 == IF IsZero(p2.price) THEN DomPrice(p2, soup.dom, AmazonPriceSelectors) ELSE p2
        p4 == IF IsZero(p3.price) THEN DomPrice(p3, soup.dom, AmazonFallbackSelector) ELSE p3
    IN  Returned(p4)

(***************************************************************************)
(* The extractors on their own: every page of the bounded sets below       *)
(***************************************************************************)
Range(f) == {f[i] : i \in DOMAIN f}

\* JSON-LD script blocks as json.loads decodes them
LdBlocks ==
    { Bad,
      PyList(0),
      [t |-> "dict", name |-> PyStr(<<"N">>)],
      [t |-> "dict", offers |-> PyList(1)],
      [t |-> "dict", offers |-> [t |-> "dict"]],
      [t |-> "dict", offers |-> [t |-> "dict", price |-> PyStr(<<"3">>)]],
      [t |-> "dict", name |-> PyStr(<<"M">>),
       offers |-> [t |-> "dict", price |-> PyNum(4)]] }

\* other script tags: kind "other" has no "pdpTrackingData" in its text,
\* "nomatch" has the word but not the assignment, "raw" assigns {...} and
\* "quoted" assigns a string holding JSON; json is what the decoding gives
PdpScripts ==
    { [kind |-> "other", json |-> Bad],
      [kind |-> "nomatch", json |-> Bad],
      [kind |-> "raw", json |-> Bad],
      [kind |-> "raw", json |-> [t |-> "dict"]],
      [kind |-> "raw", json |-> [t |-> "dict", pdt_price |-> PyStr(<<"5">>)]],
      [kind |-> "raw", json |-> [t |-> "dict", pdt_price |-> PyNum(0),
                                 product_price |-> PyStr(<<"6">>)]],
      [kind |-> "raw", json |-> [t |-> "dict", price |-> PyNum(7)]],
      [kind |-> "quoted", json |-> PyList(0)] }

\* the script tags of a page: at most MaxScripts in all
ScriptTags ==
    {tags \in SeqsUpTo(LdBlocks, MaxScripts) \X SeqsUpTo(PdpScripts, MaxScripts) :
        Len(tags[1]) + Len(tags[2]) <= MaxScripts}

UiPrices == {PyNone, Zero, Dec(1, 0)}

LazadaDoms ==
    {[sel \in Range(LazadaPriceSelectors) |->
        IF sel = LazadaPriceSelectors[1] THEN sale ELSE orig] :
        sale \in {PyNone, PyStr(<<"0">>), PyStr(<<"2">>)},
        orig \in {PyNone, PyStr(<<"2", "1">>)}}

\* the text of the element selector i selects, when there is one
AmazonText(i) == PyStr(<<"1", DigitChars[i + 1]>>)

AmazonSelectors == AmazonPriceSelectors \o AmazonFallbackSelector

\* an element "span.a-price span.a-offscreen" selects is a span.a-offscreen
AmazonDoms ==
    {[sel \in Range(AmazonSelectors) |->
        LET i == CHOOSE k \in DOMAIN AmazonSelectors : AmazonSelectors[k] = sel
        IN  IF i \notin present THEN PyNone
            ELSE IF i = 1 /\ zero THEN PyStr(<<"0">>)
            ELSE AmazonText(i)] :
        present \in {P \in SUBSET (DOMAIN AmazonSelectors) : 5 \in P => 6 \in P},
        zero \in BOOLEAN}

ExtractInputs ==
    {[platform |-> "lazada", url |-> url, ui |-> ui,
      soup |-> [dom |-> dom, ld |-> tags[1], scripts |-> tags[2]]] :
        url \in {<<"https://", "lazada", "-i101.html">>, <<"https://", "lazada">>},
        ui \in UiPrices, dom \in LazadaDoms, tags \in ScriptTags}
    \cup
    {[platform |-> "amazon", url |-> url, ui |-> PyNone,
      soup |-> [dom |-> dom, ld |-> ld, scripts |-> <<>>, title |-> title]] :
        url \in {<<"https://", "amazon.com", "/dp/B000000001">>,
                 <<"https://", "amazon.com", "/gp/help">>},
        dom \in AmazonDoms, ld \in SeqsUpTo(LdBlocks, MaxScripts),
        title \in {PyNone, PyStr(<<"T">>)}}

InitExtract ==
    /\ pc = "extract_call"
    /\ inp \in ExtractInputs
    /\ out = Returned(PyNone)
    /\ NoFrame

ExtractLazada ==
    /\ pc = "extract_call"
    /\ inp.platform = "lazada"
    /\ out' = scrape_lazada(inp.url, inp.ui, inp.soup)
    /\ pc' = "extract_done"
    /\ UNCHANGED <<inp, frame, calls, dbvars>>

ExtractAmazon ==
    /\ pc = "extract_call"
    /\ inp.platform = "amazon"
    /\ out' = scrape_amazon(inp.url, inp.soup)
    /\ pc' = "extract_done"
    /\ UNCHANGED <<inp, frame, calls, dbvars>>

NextExtract == ExtractLazada \/ ExtractAmazon

SpecExtract == InitExtract /\ [][NextExtract]_vars

\* the platform's pattern matches somewhere in the URL
IdPatternMatches(platform, url) ==
    IF platform = "lazada" THEN \E i \in DOMAIN url : LazadaItemDigits(url[i]) # <<>>
    ELSE \E i \in DOMAIN url : AsinPattern(url[i]) # 0

\* C15: every extractor yields a product id: the snapshot's
\* platform_product_id is never empty, and when the platform's URL pattern
\* does not match it is the raw URL (so URLs without the pattern never share
\* an id).
ProductIdAlwaysPresent ==
    (pc = "extract_done" /\ out.raised = "") =>
        /\ out.v.platform_product_id.t = "str"
        /\ out.v.platform_product_id.s # <<>>
        /\ ~IdPatternMatches(inp.platform, inp.url) =>
              out.v.platform_product_id.s = inp.url

(***************************************************************************)
(* What each price source of a page says, stated without the extractors    *)
(***************************************************************************)
\* the rendered-UI price (zero when the UI scrape found none)
UiSource(in) == IF in.ui.t = "none" THEN Zero ELSE in.ui

\* the DOM price: the text of the first selector, in the order of sels, that
\* selects an element
DomSource(dom, sels) ==
    LET found == {i \in DOMAIN sels : dom[sels[i]].t # "none"}
    IN  IF found = {} THEN Zero
        ELSE extract_price(dom[sels[CHOOSE i \in found : \A j \in found : i <= j]]).v

\* the price a JSON-LD block offers (zero when it offers none)
LdOffer(b) ==
    IF b.t = "dict" /\ "offers" \in DOMAIN b /\ b.offers.t = "dict"
       /\ "price" \in DOMAIN b.offers
    THEN extract_price(StrOf(b.offers.price)).v
    ELSE Zero

\* the structured-data price: the first nonzero offer in document order
LdSource(ld) ==
    LET found == {i \in DOMAIN ld : ~IsZero(LdOffer(ld[i]))}
    IN  IF found = {} THEN Zero
        ELSE LdOffer(ld[CHOOSE i \in found : \A j \in found : i <= j])

\* the client-state price: the first truthy of pdt_price, price and
\* product_price of the first pdpTrackingData assignment that decodes,
\* when that is a text
PdpSource(scripts) ==
    LET found == {i \in DOMAIN scripts :
                     scripts[i].kind \in {"raw", "quoted"} /\ scripts[i].json # Bad}
        d == scripts[CHOOSE i \in found : \A j \in found : i <= j].json
        keys == <<"pdt_price", "price", "product_price">>
        set == {k \in DOMAIN keys : keys[k] \in DOMAIN d /\ Truthy(d[keys[k]])}
        v == d[keys[CHOOSE k \in set : \A j \in set : k <= j]]
    IN  IF found = {} \/ d.t # "dict" \/ set = {} THEN Zero
        ELSE IF v.t = "str" THEN extract_price(v).v
        ELSE Zero

RECURSIVE FirstNonzero(_)
\* the first nonzero price of a chain, zero when there is none
FirstNonzero(chain) ==
    IF chain = <<>> THEN Zero
    ELSE IF ~IsZero(Head(chain)) THEN Head(chain)
    ELSE FirstNonzero(Tail(chain))

\* rendered UI, DOM selectors, structured data, client state
UiDomLdPdpChain(in) ==
    IF in.platform = "lazada"
    THEN <<UiSource(in), DomSource(in.soup.dom, LazadaPriceSelectors),
           LdSource(in.soup.ld), PdpSource(in.soup.scripts)>>
    ELSE <<UiSource(in), DomSource(in.soup.dom, AmazonPriceSelectors),
           DomSource(in.soup.dom, AmazonFallbackSelector),
           LdSource(in.soup.ld), PdpSource(in.soup.scripts)>>

\* the Amazon extractor's chain: structured data, DOM selectors, then any
\* span.a-offscreen
AmazonChain(in) ==
    <<LdSource(in.soup.ld), DomSource(in.soup.dom, AmazonPriceSelectors),
      DomSource(in.soup.dom, AmazonFallbackSelector)>>

ExtractorNeverRaises ==
    pc = "extract_done" =>
        /\ out.raised = ""
        /\ out.v.price.t = "float"

(***************************************************************************)
(* The extraction pipeline: scrape_from_url, and track's identify_platform *)
(* followed by scrape_product                                              *)
(***************************************************************************)
AllSelectors == Range(LazadaPriceSelectors) \cup Range(AmazonSelectors)

\* a page with no price element, no script and no title
EmptySoup ==
    [dom |-> [sel \in AllSelectors |-> PyNone], ld |-> <<>>, scripts |-> <<>>,
     title |-> PyNone]

\* a page whose price elements all read text, whatever the platform
DomSoup(text) ==
    [EmptySoup EXCEPT !.dom = [sel \in AllSelectors |-> PyStr(text)],
                      !.title = PyStr(<<"T">>)]

\* a page whose only price is the number n in pdpTrackingData
PdpNumberSoup(n) ==
    [EmptySoup EXCEPT !.scripts =
        <<[kind |-> "raw", json |-> [t |-> "dict", pdt_price |-> PyNum(n)]]>>]

\* what a fetch stage returns for a page: its document
Html(soup) == [t |-> "html", soup |-> soup]

\* _requests_get / _selenium_get return None, an empty body or a document
FetchResults(soups) == {PyNone, PyStr(<<>>)} \cup {Html(soup) : soup \in soups}

PipeSoups == {EmptySoup, PdpNumberSoup(7)} \cup {DomSoup(NatStr(n)) : n \in 1..MaxPrice}

PipeUrls ==
    { <<"https://", "lazada", "-i101.html">>,
      <<"https://", "www.", "amazon.com", "/dp/B000000001">>,
      <<"https://", "amazon.com", "lazada">>,
      <<"https://", "shop.", "/item">> }

InitPipeline ==
    /\ pc = "pipe_identify"
    /\ inp \in [entry : {"scrape_from_url", "track"}, url : PipeUrls,
                req : FetchResults(PipeSoups), sel : FetchResults(PipeSoups),
                ui : {PyNone, Dec(MaxPrice + 1, 0)}]
    /\ out = Returned(PyNone)
    /\ frame = [platform |-> "", html |-> PyNone]
    /\ calls = <<>>
    /\ NoApp

\* scrape_from_url's routing, or track's identify_platform
PipeIdentify ==
    /\ pc = "pipe_identify"
    /\ LET platform == IF inp.entry = "track" THEN identify_platform(inp.url)
                       ELSE route_platform(inp.url)
       IN  /\ frame' = [frame EXCEPT !.platform = platform]
           /\ calls' = Append(calls, "identify")
           /\ IF platform = ""
              THEN pc' = "pipe_done" /\ out' = Raised("ValueError")
              ELSE pc' = "pipe_requests" /\ out' = out
    /\ UNCHANGED <<inp, dbvars>>

\* scrape_product: html = _requests_get(url) or ...
PipeRequestsGet ==
    /\ pc = "pipe_requests"
    /\ calls' = Append(calls, "_requests_get")
    /\ frame' = [frame EXCEPT !.html = inp.req]
    /\ pc' = IF Truthy(inp.req) THEN "pipe_extract" ELSE "pipe_selenium"
    /\ UNCHANGED <<inp, out, dbvars>>

\* scrape_product: ... or _selenium_get(url); if not html: raise RuntimeError
PipeSeleniumGet ==
    /\ pc = "pipe_selenium"
    /\ calls' = Append(calls, "_selenium_get")
    /\ frame' = [frame EXCEPT !.html = inp.sel]
    /\ IF Truthy(inp.sel)
       THEN pc' = "pipe_extract" /\ out' = out
       ELSE pc' = "pipe_done" /\ out' = Raised("RuntimeError")
    /\ UNCHANGED <<inp, dbvars>>

\* scrape_product: the dispatch on platform
PipeExtract ==
    /\ pc = "pipe_extract"
    /\ calls' = Append(calls, "_scrape_" \o frame.platform)
    /\ out' = IF frame.platform = "lazada"
              THEN scrape_lazada(inp.url, inp.ui, frame.html.soup)
              ELSE IF frame.platform = "amazon"
              THEN scrape_amazon(inp.url, frame.html.soup)
              ELSE Raised("ValueError")
    /\ pc' = "pipe_done"
    /\ UNCHANGED <<inp, frame, dbvars>>

NextPipeline == PipeIdentify \/ PipeRequestsGet \/ PipeSeleniumGet \/ PipeExtract

SpecPipeline == InitPipeline /\ [][NextPipeline]_vars

Called(f) == \E i \in DOMAIN calls : calls[i] = f

\* The stages run in order, the headless stage only after a failed or empty
\* direct stage, and the fetch failure exactly when both stages fail
PipelineSequencing ==
    pc = "pipe_done" =>
        /\ calls[1] = "identify"
        /\ frame.platform = "" <=> calls = <<"identify">>
        /\ frame.platform = "" => out.raised = "ValueError"
        /\ Called("_selenium_get") <=> (Called("_requests_get") /\ ~Truthy(inp.req))
        /\ out.raised = "RuntimeError"
              <=> (frame.platform # "" /\ ~Truthy(inp.req) /\ ~Truthy(inp.sel))
        /\ (frame.platform # "" /\ (Truthy(inp.req) \/ Truthy(inp.sel)))
              => calls[Len(calls)] = "_scrape_" \o frame.platform

\* C5: Identify, then Fetch, then the matching Extractor: an unrecognised URL
\* fails as unsupported, the headless stage runs only when the direct stage
\* failed or was empty, the fetch failure is raised exactly when both stages
\* fail, and in every other case the platform's extractor is called and its
\* snapshot is returned
PipelineOutcome ==
    pc = "pipe_done" =>
        /\ PipelineSequencing
        /\ (frame.platform # "" /\ (Truthy(inp.req) \/ Truthy(inp.sel)))
              => /\ out.raised = ""
                 /\ out.v.platform = frame.platform

(***************************************************************************)
(* The application (app.py): the tables of models.py, the SMTP options,    *)
(* the web threads and the refresh job                                     *)
(***************************************************************************)
Users == {"u1", "u2"}
WebThreads == {"w1", "w2"}

\* get_env(name, default)
get_env(name, default) == IF env[name].t = "none" THEN default ELSE env[name]

\* int(s): ValueError unless s is a run of digits
PyInt(s) ==
    IF s # <<>> /\ DigitRun(s) = s THEN Returned(PyNum(DigitsVal(s)))
    ELSE Raised("ValueError")

\* app.send_email; transport is how the SMTP session ends ("ok" or the
\* exception it raises)
send_email(transport) ==
    LET host == get_env("SMTP_HOST", PyStr(<<>>))
        port == PyInt(get_env("SMTP_PORT", PyStr(<<"4", "6", "5">>)).s)
        user == get_env("SMTP_USER", PyStr(<<>>))
        pwd == get_env("SMTP_PASS", PyStr(<<>>))
    IN  IF port.raised # "" THEN port
        ELSE IF ~Truthy(host) \/ ~Truthy(user) \/ ~Truthy(pwd) THEN Returned(PyNone)
        ELSE Returned(PyNone)       \* try: ... except Exception: pass

\* scraper.scrape_product; req and sel are what the two fetch stages return
scrape_product(url, platform, req, sel, ui) ==
    LET html == PyOr(req, sel)
    IN  IF ~Truthy(html) THEN Raised("RuntimeError")
        ELSE IF platform = "lazada" THEN scrape_lazada(url, ui, html.soup)
        ELSE IF platform = "amazon" THEN scrape_amazon(url, html.soup)
        ELSE Raised("ValueError")

\* app._normalize_text on a string or None
normalize_text(val) == IF val.t = "none" \/ val.s = <<>> THEN PyNone ELSE val

\* db.query(Product).filter_by(url=...).first(): the look-up by URL
LookupByUrl(platform, data) ==
    LET hits == {i \in DOMAIN products : products[i].url = data.url}
    IN  IF hits = {} THEN 0 ELSE CHOOSE i \in hits : \A j \in hits : i <= j

\* db.query(Product).filter_by(platform=..., platform_product_id=...).first():
\* the id of the row, 0 when there is none
Lookup(platform, data) ==
    LET hits == {i \in DOMAIN products :
                    /\ products[i].platform = platform
                    /\ products[i].platform_product_id = data.platform_product_id}
    IN  IF hits = {} THEN 0 ELSE CHOOSE i \in hits : \A j \in hits : i <= j

\* UniqueConstraint('platform', 'platform_product_id'): may row be inserted
UqPlatformProduct(row) ==
    \A i \in DOMAIN products :
        ~(/\ products[i].platform = row.platform
          /\ products[i].platform_product_id = row.platform_product_id)

MainSoups == {EmptySoup, PdpNumberSoup(7)} \cup {DomSoup(NatStr(n)) : n \in 1..MaxPrice}

TrackUrls ==
    { <<"https://", "lazada", "-i101.html">>,
      <<"https://", "www.", "lazada", "-i101.html">>,
      <<"https://", "amazon.com", "/dp/B000000001">>,
      <<"https://", "shop.", "/item">> }

Idle == [pc |-> "idle"]

\* the session's copy of a row: its columns as they were when it was loaded
Loaded(id) == IF id = 0 THEN <<>> ELSE products[id]

\* the UPDATE of a column at commit: only a value that differs from the
\* session's copy is written
Flushed(stored, loaded, value) == IF value = loaded THEN stored ELSE value

FlushedPrice(stored, loaded, value) == IF FloatEq(value, loaded) THEN stored ELSE value

\* track once scrape_product is over: an exception ends the request; else
\* the query by (platform, platform_product_id)
Tracked(t, platform, data) ==
    IF data.raised # ""
    THEN web' = web
    ELSE web' = [web EXCEPT ![t] =
                    [pc |-> "commit", platform |-> platform, data |-> data.v,
                     found |-> Lookup(platform, data.v),
                     product |-> Loaded(Lookup(platform, data.v))]]

\* track, up to the look-up of the product: identify_platform (an
\* unsupported URL ends the request), scrape_product, then the query
TrackLookup(t) ==
    /\ web[t] = Idle
    /\ budget.tracks > 0
    /\ budget' = [budget EXCEPT !.tracks = @ - 1]
    /\ \E url \in TrackUrls, req \in FetchResults(MainSoups),
          sel \in {PyNone, Html(EmptySoup)} :
          IF identify_platform(url) = ""
          THEN web' = web
          ELSE Tracked(t, identify_platform(url),
                       scrape_product(url, identify_platform(url), req, sel, PyNone))
    /\ UNCHANGED <<products, price_history, watchlist, env, job, dispatched, callvars>>

\* track, from the look-up on: the INSERT of a new product (refused by the
\* unique constraint when the key exists by now), the price sample, the price
TrackCommit(t) ==
    /\ web[t].pc = "commit"
    /\ web' = [web EXCEPT ![t] = Idle]
    /\ LET data == web[t].data
           name_val == normalize_text(data.name)
           row == [platform |-> web[t].platform,
                   platform_product_id |-> data.platform_product_id,
                   name |-> PyOr(name_val, data.platform_product_id),
                   last_price |-> data.price,
                   url |-> data.url]
           id == IF web[t].found = 0 THEN Len(products) + 1 ELSE web[t].found
       IN  IF web[t].found = 0 /\ ~UqPlatformProduct(row)
           THEN UNCHANGED <<products, price_history>>      \* IntegrityError
           ELSE /\ products' =
                    IF web[t].found = 0 THEN Append(products, row)
                    ELSE [products EXCEPT
                             ![id].name =
                                 IF name_val.t # "none"
                                 THEN Flushed(@, web[t].product.name, name_val) ELSE @,
                             ![id].last_price =
                                 FlushedPrice(@, web[t].product.last_price, data.price)]
                /\ price_history' =
                    Append(price_history, [product_id |-> id, price |-> data.price])
    /\ UNCHANGED <<watchlist, env, job, dispatched, budget, callvars>>

(***************************************************************************)
(* The watchlist helpers                                                   *)
(***************************************************************************)
\* the code point of a character, as far as names use them
Code(c) ==
    CASE c \in Digits -> 48 + DigitVal(c)
      [] c = "B" -> 66 [] c = "M" -> 77 [] c = "N" -> 78 [] c = "T" -> 84
      [] c = "b" -> 98 [] c = "m" -> 109 [] c = "n" -> 110 [] c = "t" -> 116
      [] OTHER -> 0

LowerChar(c) ==
    CASE c = "B" -> "b" [] c = "M" -> "m" [] c = "N" -> "n" [] c = "T" -> "t"
      [] OTHER -> c

\* str.lower()
LowerStr(s) == [i \in DOMAIN s |-> LowerChar(s[i])]

RECURSIVE StrLt(_, _)
\* a < b for two strings
StrLt(a, b) ==
    IF b = <<>> THEN FALSE
    ELSE IF a = <<>> THEN TRUE
    ELSE IF Code(Head(a)) # Code(Head(b)) THEN Code(Head(a)) < Code(Head(b))
    ELSE StrLt(Tail(a), Tail(b))

\* app.get_sorted_watchlist: the user's rows ORDER BY Product.name ASC, in
\* any of the orders the database may give rows of equal name
get_sorted_watchlist(user_id) ==
    LET rows == {w \in watchlist : w.user_id = user_id}
        n == Cardinality(rows)
    IN  {items \in [1..n -> rows] :
            /\ \A i, j \in 1..n : i # j => items[i] # items[j]
            /\ \A i \in 1..n, j \in 1..n : i < j =>
                  ~StrLt(products[items[j].product_id].name.s,
                         products[items[i].product_id].name.s)}

\* app._watchlist_names
watchlist_names(items) ==
    [i \in DOMAIN items |-> LowerStr(products[items[i].product_id].name.s)]

RECURSIVE Bisect(_, _, _, _)
Bisect(a, x, lo, hi) ==
    IF lo >= hi THEN lo
    ELSE LET mid == (lo + hi) \div 2
         IN  IF StrLt(a[mid + 1], x) THEN Bisect(a, x, mid + 1, hi)
             ELSE Bisect(a, x, lo, mid)

\* bisect.bisect_left(a, x): a 0-based index
bisect_left(a, x) == Bisect(a, x, 0, Len(a))

PyBool(b) == [t |-> "bool", b |-> b]

\* the user's subscription of the product, as a set (empty: none)
Subscribed(user_id, pid) ==
    {w \in watchlist : w.user_id = user_id /\ w.product_id = pid}

\* app.insert_watchlist, items being what get_sorted_watchlist returned:
\* what it returns or raises, and the watchlist rows after it
insert_watchlist(user_id, pid, items) ==
    LET names == watchlist_names(items)
        key == LowerStr(products[pid].name.s)
        i == bisect_left(names, key)
        row == [user_id |-> user_id, product_id |-> pid,
                notify_price_drop |-> TRUE,
                last_notified_price |-> products[pid].last_price]
    IN  IF /\ i # Len(names) /\ names[i + 1] = key
           /\ \E k \in DOMAIN items : items[k].product_id = pid
        THEN [ret |-> Returned(PyBool(FALSE)), rows |-> watchlist]
        ELSE IF Subscribed(user_id, pid) # {}       \* uq_user_product
        THEN [ret |-> Raised("IntegrityError"), rows |-> watchlist]
        ELSE [ret |-> Returned(PyBool(TRUE)), rows |-> watchlist \cup {row}]

\* app.remove_watchlist, likewise
remove_watchlist(user_id, pid, items) ==
    LET names == watchlist_names(items)
        key == LowerStr(products[pid].name.s)
        i == bisect_left(names, key)
    IN  IF i = Len(names) \/ names[i + 1] # key
        THEN [ret |-> Returned(PyBool(FALSE)), rows |-> watchlist]
        ELSE IF \E k \in DOMAIN items : items[k].product_id = pid
        THEN [ret |-> Returned(PyBool(TRUE)),
              rows |-> watchlist \ Subscribed(user_id, pid)]
        ELSE [ret |-> Returned(PyBool(FALSE)), rows |-> watchlist]

\* add_watch: insert_watchlist on the user's sorted watchlist
AddWatch(user_id, pid) ==
    /\ budget.watches > 0
    /\ budget' = [budget EXCEPT !.watches = @ - 1]
    /\ pid \in DOMAIN products
    /\ \E items \in get_sorted_watchlist(user_id) :
          watchlist' = insert_watchlist(user_id, pid, items).rows
    /\ UNCHANGED <<products, price_history, env, web, job, dispatched, callvars>>

(***************************************************************************)
(* The refresh job (refresh_prices_and_notify), one cycle after another.   *)
(* job.over, failed, extracted, samples and report describe the cycle.     *)
(***************************************************************************)
JobIdle ==
    [pc |-> "idle", ids |-> {}, todo |-> {}, pid |-> 0, product |-> <<>>,
     old_price |-> Zero, new_price |-> Zero, data_price |-> Zero, scraped_count |-> 0,
     over |-> "none", failed |-> {}, extracted |-> <<>>, samples |-> <<>>,
     report |-> <<>>]

\* product_ids = {w.product_id for w in db.query(Watchlist).all()}
RefreshStart ==
    /\ job.pc = "idle"
    /\ budget.cycles > 0
    /\ budget' = [budget EXCEPT !.cycles = @ - 1]
    /\ LET ids == {w.product_id : w \in watchlist}
       IN  job' = IF ids = {}
                  THEN [JobIdle EXCEPT !.over = "empty"]
                  ELSE [JobIdle EXCEPT !.pc = "loop", !.ids = ids, !.todo = ids,
                                       !.over = "running",
                                       !.extracted = [p \in ids |-> 0],
                                       !.samples = [p \in ids |-> 0]]
    /\ UNCHANGED <<products, price_history, watchlist, env, web, dispatched, callvars>>

\* for pid in product_ids: product = db.query(Product).get(pid)
RefreshLoad ==
    /\ job.pc = "loop"
    /\ \E pid \in job.todo :
          job' = [job EXCEPT !.pc = "scrape", !.pid = pid, !.todo = @ \ {pid},
                             !.product = products[pid]]
    /\ UNCHANGED <<products, price_history, watchlist, env, web, dispatched, budget,
                   callvars>>

\* the refresh of job.pid once scrape_product is over: on an exception the
\* product is skipped; else the new price, the price sample and the commit
Scraped(data, pid, old_price) ==
    IF data.raised # ""
    THEN /\ job' = [job EXCEPT !.pc = "loop", !.failed = @ \cup {pid},
                               !.extracted[pid] = @ + 1]
         /\ UNCHANGED <<products, price_history>>
    ELSE LET new_price == IF ~IsZero(data.v.price) THEN data.v.price ELSE old_price
         IN  /\ products' = [products EXCEPT ![pid].last_price =
                                FlushedPrice(@, old_price, new_price)]
             /\ price_history' =
                  Append(price_history, [product_id |-> pid, price |-> new_price])
             /\ job' = [job EXCEPT
                           !.pc = IF FloatLt(new_price, old_price)
                                  THEN "notify" ELSE "loop",
                           !.scraped_count = @ + 1,
                           !.old_price = old_price, !.new_price = new_price,
                           !.data_price = data.v.price,
                           !.extracted[pid] = @ + 1, !.samples[pid] = @ + 1]

\* try: data = scrape_product(product.url, product.platform), and what
\* follows it in the loop body up to the commit
RefreshScrape ==
    /\ job.pc = "scrape"
    /\ \E req \in FetchResults(MainSoups), sel \in {PyNone, Html(EmptySoup)} :
          Scraped(scrape_product(job.product.url, job.product.platform, req, sel, PyNone),
                  job.pid, job.product.last_price)
    /\ UNCHANGED <<watchlist, env, web, dispatched, budget, callvars>>

RECURSIVE SeqOfSet(_)
\* the elements of a finite set, in some fixed order
SeqOfSet(S) ==
    IF S = {} THEN <<>>
    ELSE LET x == CHOOSE y \in S : TRUE IN <<x>> \o SeqOfSet(S \ {x})

\* what the cycle has to say about a send_email call that returned
Notice(w) ==
    [cycle |-> budget.cycles, user_id |-> w.user_id, product_id |-> w.product_id,
     price |-> job.new_price]

\* if new_price < old_price: for w in watchers: send_email(...);
\* w.last_notified_price = new_price; then db.commit(). An exception of
\* send_email ends refresh_prices_and_notify.
RefreshNotify ==
    /\ job.pc = "notify"
    /\ \E transport \in {"ok", "SMTPException"} :
          LET watchers == {w \in watchlist : w.product_id = job.pid}
              told == {w \in watchers : w.notify_price_drop}
              sent == send_email(transport)
          IN  IF told # {} /\ sent.raised # ""
              THEN /\ job' = [job EXCEPT !.pc = "idle", !.over = "aborted"]
                   /\ UNCHANGED <<watchlist, dispatched>>
              ELSE /\ watchlist' = (watchlist \ told) \cup
                          {[w EXCEPT !.last_notified_price = job.new_price] : w \in told}
                   /\ dispatched' = dispatched \o SeqOfSet({Notice(w) : w \in told})
                   /\ job' = [job EXCEPT !.pc = "loop"]
    /\ UNCHANGED <<products, price_history, env, web, budget, callvars>>

\* the loop is over: print scraped_count / len(product_ids)
RefreshFinish ==
    /\ job.pc = "loop"
    /\ job.todo = {}
    /\ job' = [job EXCEPT !.pc = "idle", !.over = "done",
                          !.report = [scraped |-> job.scraped_count,
                                      total |-> Cardinality(job.ids)]]
    /\ UNCHANGED <<products, price_history, watchlist, env, web, dispatched, budget,
                   callvars>>

\* the SMTP options the process may start with: each unset, or set to a text
SmtpEnvs ==
    [SMTP_HOST : {PyNone, PyStr(<<"h">>)}, SMTP_USER : {PyStr(<<"u">>)},
     SMTP_PASS : {PyStr(<<"p">>)}, SMTP_PORT : {PyNone, PyStr(<<>>)}]

Init ==
    /\ pc = "idle" /\ inp = <<>> /\ out = <<>> /\ frame = <<>> /\ calls = <<>>
    /\ products = <<>>
    /\ price_history = <<>>
    /\ watchlist = {}
    /\ env \in SmtpEnvs
    /\ web = [t \in WebThreads |-> Idle]
    /\ job = JobIdle
    /\ dispatched = <<>>
    /\ budget = [tracks |-> MaxTracks, watches |-> MaxWatches, cycles |-> MaxCycles]

Next ==
    \/ \E t \in WebThreads : TrackLookup(t)
    \/ \E t \in WebThreads : TrackCommit(t)
    \/ \E u \in Users, pid \in DOMAIN products : AddWatch(u, pid)
    \/ RefreshStart
    \/ RefreshLoad
    \/ RefreshScrape
    \/ RefreshNotify
    \/ RefreshFinish

Spec == Init /\ [][Next]_vars

(***************************************************************************)
(* Properties of tracking and of the refresh cycle                         *)
(***************************************************************************)
KeyOf(row) == <<row.platform, row.platform_product_id>>

OneRecordPerKey ==
    \A i, j \in DOMAIN products : KeyOf(products[i]) = KeyOf(products[j]) => i = j

\* a track request looks the product up by its key, and one that found a
\* record keeps the records as they are and appends one sample to that record
TrackResolves ==
    \A t \in WebThreads :
        /\ (web[t] = Idle /\ web'[t].pc = "commit") =>
              LET hits == {i \in DOMAIN products :
                              KeyOf(products[i]) =
                                  <<web'[t].platform, web'[t].data.platform_product_id>>}
              IN  IF hits = {} THEN web'[t].found = 0 ELSE web'[t].found \in hits
        /\ (web[t].pc = "commit" /\ web'[t] = Idle /\ web[t].found # 0) =>
              /\ Len(products') = Len(products)
              /\ price_history' =
                    Append(price_history,
                           [product_id |-> web[t].found, price |-> web[t].data.price])

\* C4: at every time there is at most one product record per (platform,
\* platform product id); a track request of a product that has a record
\* resolves to that record by its key, whatever the URL, creates no second
\* record and appends exactly one price sample to it.
IdempotentTracking == []OneRecordPerKey /\ [][TrackResolves]_vars

\* C4 happens: the product was tracked twice, by track alone, and there is
\* one record with two samples
IdempotentTrackingTwice ==
    /\ Len(products) = 1
    /\ Len(price_history) = 2
    /\ \A k \in DOMAIN price_history : price_history[k].product_id = 1
    /\ \A t \in WebThreads : web[t] = Idle
    /\ job.over = "none"

CycleOver == job.over \in {"done", "aborted"}

\* C1: a refresh cycle runs to its end whatever fails; at its end every
\* watched product whose extraction did not fail has exactly one new sample
\* of the cycle, a failed one has none, and the report counts the successes
\* out of the products considered.
BatchIsolation ==
    CycleOver =>
        /\ job.over = "done"
        /\ \A pid \in job.ids :
              job.samples[pid] = IF pid \in job.failed THEN 0 ELSE 1
        /\ job.report = [scraped |-> Cardinality(job.ids) - Cardinality(job.failed),
                         total |-> Cardinality(job.ids)]

\* C3: at the end of a refresh cycle every watched product has been extracted
\* exactly once in it, and has at most one sample of the cycle, however many
\* subscriptions watch it.
ExtractedOncePerCycle ==
    CycleOver =>
        \A pid \in job.ids : job.extracted[pid] = 1 /\ job.samples[pid] <= 1

\* the entries the step appends to dispatched for subscription w
NewNotices(w) ==
    {k \in (Len(dispatched) + 1)..Len(dispatched') :
        dispatched'[k].user_id = w.user_id /\ dispatched'[k].product_id = w.product_id}

DropDispatch ==
    /\ (job.pc = "scrape" /\ job'.pc # "scrape" /\ job'.scraped_count # job.scraped_count) =>
          (job'.pc = "notify" <=> FloatLt(job'.new_price, job'.old_price))
    /\ (job.pc = "notify" /\ job' # job) =>
          \A w \in watchlist :
              IF w.product_id = job.pid /\ w.notify_price_drop
              THEN /\ Cardinality(NewNotices(w)) = 1
                   /\ [w EXCEPT !.last_notified_price = job.new_price] \in watchlist'
              ELSE NewNotices(w) = {} /\ w \in watchlist'
    /\ (job.pc # "notify" \/ job' = job) =>
          dispatched' = dispatched /\ \A w \in watchlist : w \in watchlist'

\* C2: when the refresh finds a product's new price strictly below its stored
\* price, each subscription of the product with notify_price_drop gets
\* exactly one notification in the cycle and its last_notified_price becomes
\* the new price; in every other step no notification is dispatched and no
\* last_notified_price changes.
DropNotification == [][DropDispatch]_vars

\* C10: no refresh cycle is ended by a notification: whatever send_email
\* meets (an SMTP option missing, a transport failure), the cycle goes on.
NotificationBestEffort == job.over # "aborted"

\* int(SMTP_PORT) succeeds
PortWellFormed == PyInt(get_env("SMTP_PORT", PyStr(<<"4", "6", "5">>)).s).raised = ""

\* with a port that int() accepts, the cycle is as C1, C2, C3 and C10 say
BatchIsolationGivenPort == PortWellFormed => BatchIsolation
ExtractedOncePerCycleGivenPort == PortWellFormed => ExtractedOncePerCycle
DropNotificationGivenPort == [][PortWellFormed => DropDispatch]_vars
NotificationBestEffortGivenPort == PortWellFormed => NotificationBestEffort

(***************************************************************************)
(* Refresh cycles one after another over a product that is tracked and     *)
(* watched: the state after track and add_watch, then only the job         *)
(***************************************************************************)
MaxAlertCycles == 3

\* the row track inserts for the Lazada item 101 seen at price n
TrackedRow(n) ==
    [platform |-> "lazada", platform_product_id |-> PyStr(<<"1", "0", "1">>),
     name |-> PyStr(<<"1", "0", "1">>), last_price |-> Dec(n, 0),
     url |-> <<"https://", "lazada", "-i101.html">>]

\* the row insert_watchlist adds for product 1 at that price
WatchRow(user_id, n) ==
    [user_id |-> user_id, product_id |-> 1, notify_price_drop |-> TRUE,
     last_notified_price |-> Dec(n, 0)]

InitAlerts ==
    /\ pc = "idle" /\ inp = <<>> /\ out = <<>> /\ frame = <<>> /\ calls = <<>>
    /\ \E n \in 1..MaxPrice, watchers \in (SUBSET Users) \ {{}} :
          /\ products = <<TrackedRow(n)>>
          /\ price_history = <<[product_id |-> 1, price |-> Dec(n, 0)]>>
          /\ watchlist = {WatchRow(u, n) : u \in watchers}
    /\ env \in SmtpEnvs
    /\ web = [t \in WebThreads |-> Idle]
    /\ job = JobIdle
    /\ dispatched = <<>>
    /\ budget = [tracks |-> 0, watches |-> 0, cycles |-> MaxAlertCycles]

NextAlerts ==
    \/ RefreshStart
    \/ RefreshLoad
    \/ RefreshScrape
    \/ RefreshNotify
    \/ RefreshFinish

SpecAlerts == InitAlerts /\ [][NextAlerts]_vars

\* notification k is for subscription w
NoticeFor(notice, w) ==
    notice.user_id = w.user_id /\ notice.product_id = w.product_id

\* the step notifies no subscription of a price that is its
\* last_notified_price and of which it has been notified before
NoRepeatedAlert ==
    \A k \in (Len(dispatched) + 1)..Len(dispatched') : \A w \in watchlist :
        (NoticeFor(dispatched'[k], w)
            /\ FloatEq(dispatched'[k].price, w.last_notified_price)) =>
        ~\E j \in 1..Len(dispatched) :
            /\ NoticeFor(dispatched[j], w)
            /\ FloatEq(dispatched[j].price, dispatched'[k].price)

\* C11: over any sequence of refresh cycles no subscription is sent a second
\* notification for a price equal to its current last_notified_price (a
\* price that drops to p, rises and drops back to p notifies once).
AlertOncePerPrice == [][NoRepeatedAlert]_vars

\* the product key a request in flight is about
KeyInFlight(t) == <<web[t].platform, web[t].data.platform_product_id>>

\* C12: at most one extraction of a product key is in flight: no two track
\* requests of one key are between their extraction and their commit, a
\* product the refresh job has loaded is not being tracked, and the price the
\* job read for it is still the stored one when the job writes.
ExclusivePerProduct ==
    /\ \A t1, t2 \in WebThreads :
          (t1 # t2 /\ web[t1].pc = "commit" /\ web[t2].pc = "commit") =>
              KeyInFlight(t1) # KeyInFlight(t2)
    /\ job.pc = "scrape" =>
          /\ \A t \in WebThreads :
                web[t].pc = "commit" => KeyInFlight(t) # KeyOf(job.product)
          /\ FloatEq(job.product.last_price, products[job.pid].last_price)

\* the job is about to refresh a product that a track request has re-priced
\* since the job read it
StaleRefresh ==
    /\ job.pc = "scrape"
    /\ ~FloatEq(job.product.last_price, products[job.pid].last_price)

\* the job's step is a successful extraction of job.pid
RefreshedOne == job.pc = "scrape" /\ job'.scraped_count = job.scraped_count + 1

\* what C13 says of such a step, the price stored before it being prev
SampleAsStored(prev) ==
    LET new_price == IF ~IsZero(job'.data_price) THEN job'.data_price ELSE prev
    IN  /\ price_history' =
              Append(price_history, [product_id |-> job.pid, price |-> new_price])
        /\ FloatEq(products'[job.pid].last_price, new_price)

HistoryGrows ==
    /\ Len(price_history') >= Len(price_history)
    /\ SubSeq(price_history', 1, Len(price_history)) = price_history

\* C13: a successful extraction in a refresh cycle appends exactly one sample
\* whose price is the extracted price if nonzero, else the price stored
\* before, and leaves the record's price equal to it; no step changes or
\* removes a sample.
OneSamplePerRefresh ==
    [][HistoryGrows /\ (RefreshedOne => SampleAsStored(products[job.pid].last_price))]_vars

\* the same when no track request re-priced the product since the job read it
OneSamplePerRefreshAlone ==
    [][HistoryGrows /\
       ((RefreshedOne /\ ~StaleRefresh) => SampleAsStored(products[job.pid].last_price))]_vars

(***************************************************************************)
(* The watchlist operations on their own: products of any names, then      *)
(* add_watch and remove_watch requests, each recorded in inp and out       *)
(***************************************************************************)
MaxWatchOps == 3

\* product names as page titles give them: letters of either case
WatchNames == {<<"T">>, <<"m">>, <<"t">>}

NamedRow(last, name) ==
    [platform |-> "amazon", platform_product_id |-> PyStr(Asin(last)),
     name |-> PyStr(name), last_price |-> Dec(1, 0),
     url |-> <<"https://", "amazon.com", "/dp/B00000000" \o last>>]

InitWatchlist ==
    /\ pc = "watch" /\ inp = <<>> /\ out = <<>> /\ frame = <<>> /\ calls = <<>>
    /\ \E n1, n2, n3 \in WatchNames :
          products = <<NamedRow("1", n1), NamedRow("2", n2), NamedRow("3", n3)>>
    /\ price_history = <<>>
    /\ watchlist = {}
    /\ env = [SMTP_HOST |-> PyNone, SMTP_USER |-> PyNone, SMTP_PASS |-> PyNone,
              SMTP_PORT |-> PyNone]
    /\ web = [t \in WebThreads |-> Idle]
    /\ job = JobIdle
    /\ dispatched = <<>>
    /\ budget = [tracks |-> 0, watches |-> MaxWatchOps, cycles |-> 0]

\* POST /watch/<product_id>
WatchInsert(user_id, pid) ==
    /\ budget.watches > 0
    /\ budget' = [budget EXCEPT !.watches = @ - 1]
    /\ \E items \in get_sorted_watchlist(user_id) :
          /\ watchlist' = insert_watchlist(user_id, pid, items).rows
          /\ out' = insert_watchlist(user_id, pid, items).ret
    /\ inp' = [op |-> "insert", user_id |-> user_id, product_id |-> pid]
    /\ UNCHANGED <<pc, frame, calls, products, price_history, env, web, job, dispatched>>

\* POST /unwatch/<product_id>
WatchRemove(user_id, pid) ==
    /\ budget.watches > 0
    /\ budget' = [budget EXCEPT !.watches = @ - 1]
    /\ \E items \in get_sorted_watchlist(user_id) :
          /\ watchlist' = remove_watchlist(user_id, pid, items).rows
          /\ out' = remove_watchlist(user_id, pid, items).ret
    /\ inp' = [op |-> "remove", user_id |-> user_id, product_id |-> pid]
    /\ UNCHANGED <<pc, frame, calls, products, price_history, env, web, job, dispatched>>

NextWatchlist ==
    \/ \E u \in Users, pid \in DOMAIN products : WatchInsert(u, pid)
    \/ \E u \in Users, pid \in DOMAIN products : WatchRemove(u, pid)

SpecWatchlist == InitWatchlist /\ [][NextWatchlist]_vars

\* what plain membership asks of the request the step made
AsMembership ==
    LET had == Subscribed(inp'.user_id, inp'.product_id)
        has == {w \in watchlist' :
                   w.user_id = inp'.user_id /\ w.product_id = inp'.product_id}
        others == watchlist \ had
    IN  /\ watchlist' \ has = others
        /\ IF inp'.op = "insert"
           THEN /\ out' = Returned(PyBool(had = {}))
                /\ Cardinality(has) = 1
           ELSE /\ out' = Returned(PyBool(had # {}))
                /\ has = {}

\* C16: whatever the names of the watched products, insert_watchlist returns
\* False and adds nothing when the user has a subscription of the product and
\* else adds exactly one and returns True, never attempting a duplicate row;
\* remove_watchlist deletes the subscription and returns True when there is
\* one and returns False only when there is none.
WatchlistAsMembership == [][AsMembership]_vars

\* the step keeps every nonzero stored price nonzero, and appends no zero
\* sample for a product whose stored price is nonzero
KeepsKnownPrice ==
    /\ \A pid \in DOMAIN products :
          ~IsZero(products[pid].last_price) => ~IsZero(products'[pid].last_price)
    /\ \A k \in (Len(price_history) + 1)..Len(price_history') :
          LET pid == price_history'[k].product_id
          IN  (pid \in DOMAIN products /\ ~IsZero(products[pid].last_price)) =>
                  ~IsZero(price_history'[k].price)

\* C17: once a product record's price is nonzero, no later track request or
\* refresh whose extraction found no price (zero) overwrites it with zero or
\* appends a zero price sample.
LastKnownPriceKept == [][KeepsKnownPrice]_vars

====
